---- MODULE Spec2Model ----
(***************************************************************************)
(* Moving Average Crossover Strategy (src/main.py).                        *)
(*                                                                         *)
(* The model follows main(): fetch_stock_data, the data.empty check,       *)
(* calculate_moving_averages, generate_signals, print_signals and          *)
(* plot_strategy, each as one action.  The DataFrame is an object on a     *)
(* heap, so that in-place column assignment and the identity of the        *)
(* returned frame are visible.                                             *)
(*                                                                         *)
(* Numbers.  A float is a record [nan, num, den]: NaN, or the exact        *)
(* rational num/den (den > 0).  Prices are in thousandths of a currency    *)
(* unit.  Rounding error of binary floating point is not modelled.  Close  *)
(* prices are always defined (no NaN in the fetched Close column).         *)
(*                                                                         *)
(* Indices.  Python position i (0-based) is position i+1 here.             *)
(***************************************************************************)
EXTENDS Integers, Sequences, FiniteSets, TLC

\* ---- bounds of the model ----
MaxN == 5          \* longest fetched series
MaxW == 3          \* largest window
MaxPrice == 3      \* number of distinct price levels

\* ---- floats ----
NaN == [nan |-> TRUE, num |-> 0, den |-> 1]

Float(n, d) == [nan |-> FALSE, num |-> n, den |-> d]

\* pd.isnull on a scalar
isnull(x) == x.nan

\* a > b on floats; any comparison with NaN is False
Gt(a, b) == (~a.nan) /\ (~b.nan) /\ (a.num * b.den > b.num * a.den)

\* a <= b on floats; any comparison with NaN is False
Le(a, b) == (~a.nan) /\ (~b.nan) /\ (a.num * b.den <= b.num * a.den)

\* column == k for an integer k; NaN == k is False
EqInt(a, k) == (~a.nan) /\ (a.num = k * a.den)

\* the price levels a fetched Close can take, in thousandths
PriceOf(k) == 9992 + 12 * k

Prices == {Float(PriceOf(k), 1) : k \in 1..MaxPrice}

\* window arguments: valid ones, zero, and a negative one
Windows == -1..MaxW

\* ---- frames ----
\* A DataFrame: its index (dates, as day numbers), the set of its columns and
\* the columns' values.  A column that is not in cols holds <<>>.
Frame(idx, close) ==
    [index |-> idx, cols |-> {"Close"}, Close |-> close,
     Short_MA |-> <<>>, Long_MA |-> <<>>, Signal |-> <<>>, Position |-> <<>>]

\* the frames yf.download can return: N rows, N in 0..MaxN, consecutive
\* strictly increasing dates, defined prices
Downloads ==
    UNION {{Frame([i \in 1..n |-> i], c) : c \in [1..n -> Prices]} : n \in 0..MaxN}

\* ---- pandas / numpy operations used by the program ----
Min(a, b) == IF a < b THEN a ELSE b

\* the running sum of the sliding window ending at position i: each step adds
\* the entering value and removes the one that leaves the window
RECURSIVE RollSum(_, _, _)
RollSum(close, window, i) ==
    IF i = 0 THEN 0
    ELSE RollSum(close, window, i - 1) + close[i].num
         - (IF i > window THEN close[i - window].num ELSE 0)

\* mutant: min_periods = 1, a mean over the values seen so far
rolling_mean_minp1(close, window) ==
    [i \in 1..Len(close) |->
        LET nobs == Min(i, window)
        IN  IF nobs > 0 THEN Float(RollSum(close, window, i), nobs) ELSE NaN]

\* mutant: the window is one too long
rolling_mean_off1(close, window) ==
    [i \in 1..Len(close) |->
        LET nobs == Min(i, window + 1)
        IN  IF nobs >= window + 1 /\ nobs > 0
            THEN Float(RollSum(close, window + 1, i), nobs) ELSE NaN]

\* Series.rolling(window=window).mean(), window >= 0, min_periods = window:
\* NaN until the window is full, and NaN for an empty window
rolling_mean(close, window) ==
    [i \in 1..Len(close) |->
        LET nobs == Min(i, window)
        IN  IF nobs >= window /\ nobs > 0
            THEN Float(RollSum(close, window, i), nobs) ELSE NaN]

\* mutant: ties count as above
np_where_ge(short, long) ==
    [i \in 1..Len(short) |->
        IF Le(long[i], short[i]) THEN 1 ELSE 0]

\* mutant: np.where(short <= long, 0, 1), which sends NaN to 1
np_where_not_le(short, long) ==
    [i \in 1..Len(short) |-> IF Le(short[i], long[i]) THEN 0 ELSE 1]

\* np.where(short > long, 1, 0)
np_where_gt(short, long) ==
    [i \in 1..Len(short) |-> IF Gt(short[i], long[i]) THEN 1 ELSE 0]

\* mutant: the difference taken the wrong way round
diff_reversed(signal) ==
    [i \in 1..Len(signal) |->
        IF i = 1 THEN NaN ELSE Float(signal[i - 1] - signal[i], 1)]

\* mutant: the level of the signal instead of its difference
diff_level(signal) ==
    [i \in 1..Len(signal) |-> IF i = 1 THEN NaN ELSE Float(signal[i], 1)]

\* Series.diff(): NaN at the first position, then x[i] - x[i-1]
diff(signal) ==
    [i \in 1..Len(signal) |->
        IF i = 1 THEN NaN ELSE Float(signal[i] - signal[i - 1], 1)]

\* f"{price:.2f}": the price in hundredths, rounded to nearest, ties to even
Fmt2f(x) ==
    LET d == 10 * x.den
        q == x.num \div d
        r == x.num % d
    IN  IF 2 * r > d THEN q + 1
        ELSE IF 2 * r < d THEN q
        ELSE IF q % 2 = 0 THEN q ELSE q + 1

\* data[data['Position'] == k]: the selected row positions, in index order
RECURSIVE RowsUpTo(_, _, _)
RowsUpTo(f, k, n) ==
    IF n = 0 THEN <<>>
    ELSE LET r == RowsUpTo(f, k, n - 1)
         IN  IF EqInt(f.Position[n], k) THEN Append(r, n) ELSE r

Rows(f, k) == RowsUpTo(f, k, Len(f.Position))

\* one printed line of text
Text(tag) == [tag |-> tag, date |-> 0, cents |-> 0]

\* the line printed for one selected row
SignalLine(f, i) ==
    LET close_val == f.Close[i]
    IN  IF ~isnull(close_val)
        THEN [tag |-> "SIGNAL", date |-> f.index[i], cents |-> Fmt2f(close_val)]
        ELSE [tag |-> "NA", date |-> f.index[i], cents |-> 0]

\* the lines print_signals writes for one kind of signal
Section(f, k, none) ==
    LET rows == Rows(f, k)
    IN  IF Len(rows) > 0
        THEN [j \in 1..Len(rows) |-> SignalLine(f, rows[j])]
        ELSE <<Text(none)>>

\* the scatter markers plot_strategy draws for one kind of signal
Markers(f, k) ==
    LET rows == Rows(f, k)
    IN  [j \in 1..Len(rows) |-> [x |-> f.index[rows[j]], y |-> f.Close[rows[j]]]]

\* ---- the program's functions ----
\* mutant: work on a copy of the frame and return the copy
calculate_moving_averages_copy(h, d, short_window, long_window) ==
    LET g == [h[d] EXCEPT !.Short_MA = rolling_mean(h[d].Close, short_window),
                          !.Long_MA = rolling_mean(h[d].Close, long_window),
                          !.cols = @ \cup {"Short_MA", "Long_MA"}]
    IN  IF short_window < 0 \/ long_window < 0
        THEN [heap |-> h, ret |-> d, raised |-> TRUE]
        ELSE [heap |-> Append(h, g), ret |-> Len(h) + 1, raised |-> FALSE]

\* calculate_moving_averages(data, short_window, long_window) on the frame
\* h[d]: the two column assignments in order, each of which raises ValueError
\* for a negative window before it assigns; returns the frame it was given
calculate_moving_averages(h, d, short_window, long_window) ==
    LET h1 == [h EXCEPT ![d].Short_MA = rolling_mean(h[d].Close, short_window),
                        ![d].cols = @ \cup {"Short_MA"}]
        h2 == [h1 EXCEPT ![d].Long_MA = rolling_mean(h[d].Close, long_window),
                         ![d].cols = @ \cup {"Long_MA"}]
    IN  IF short_window < 0 THEN [heap |-> h, ret |-> d, raised |-> TRUE]
        ELSE IF long_window < 0 THEN [heap |-> h1, ret |-> d, raised |-> TRUE]
        ELSE [heap |-> h2, ret |-> d, raised |-> FALSE]

\* generate_signals(data) on the frame h[d]: Signal, then Position, assigned
\* in place; returns the frame it was given
generate_signals(h, d) ==
    LET signal == np_where_gt(h[d].Short_MA, h[d].Long_MA)
        h1 == [h EXCEPT ![d].Signal = signal,
                        ![d].Position = diff(signal),
                        ![d].cols = @ \cup {"Signal", "Position"}]
    IN  [heap |-> h1, ret |-> d]

\* the lines print_signals(data) writes
print_signals(f) ==
    <<Text("BUY_HEADER")>> \o Section(f, 1, "NO_BUY")
    \o <<Text("SELL_HEADER")>> \o Section(f, -1, "NO_SELL")

\* the markers plot_strategy(data, ticker) draws
plot_strategy(f) == [buy |-> Markers(f, 1), sell |-> Markers(f, -1)]

\* mutant: the emptiness check is missing
empty_never(f) == FALSE

\* DataFrame.empty
empty(f) == Len(f.index) = 0

VARIABLES pc, SHORT_WINDOW, LONG_WINDOW, heap, data, fetched, calls, stdout, chart

vars == <<pc, SHORT_WINDOW, LONG_WINDOW, heap, data, fetched, calls, stdout, chart>>

Init ==
    /\ pc = "main"
    /\ SHORT_WINDOW \in Windows
    /\ LONG_WINDOW \in Windows
    /\ heap = <<>>
    /\ data = 0
    /\ fetched = Frame(<<>>, <<>>)
    /\ calls = <<>>
    /\ stdout = <<>>
    /\ chart = [buy |-> <<>>, sell |-> <<>>]

\* data = fetch_stock_data(TICKER, ...)
FetchStockData ==
    /\ pc = "main"
    /\ \E f \in Downloads :
         /\ heap' = Append(heap, f)
         /\ fetched' = f
    /\ data' = Len(heap) + 1
    /\ calls' = Append(calls, "fetch_stock_data")
    /\ pc' = "fetched"
    /\ UNCHANGED <<SHORT_WINDOW, LONG_WINDOW, stdout, chart>>

\* if data.empty: print the error and return
EmptyReturn ==
    /\ pc = "fetched"
    /\ empty(heap[data])
    /\ stdout' = Append(stdout, Text("ERROR_NO_DATA"))
    /\ pc' = "returned_empty"
    /\ UNCHANGED <<SHORT_WINDOW, LONG_WINDOW, heap, data, fetched, calls, chart>>

\* data = calculate_moving_averages(data, SHORT_WINDOW, LONG_WINDOW)
CalculateMovingAverages ==
    /\ pc = "fetched"
    /\ ~empty(heap[data])
    /\ LET r == calculate_moving_averages(heap, data, SHORT_WINDOW, LONG_WINDOW)
       IN  /\ heap' = r.heap
           /\ \/ /\ ~r.raised
                 /\ data' = r.ret
                 /\ pc' = "averaged"
              \/ /\ r.raised
                 /\ data' = data
                 /\ pc' = "raised"
    /\ calls' = Append(calls, "calculate_moving_averages")
    /\ UNCHANGED <<SHORT_WINDOW, LONG_WINDOW, fetched, stdout, chart>>

\* data = generate_signals(data)
GenerateSignals ==
    /\ pc = "averaged"
    /\ LET r == generate_signals(heap, data)
       IN  /\ heap' = r.heap
           /\ data' = r.ret
    /\ calls' = Append(calls, "generate_signals")
    /\ pc' = "signalled"
    /\ UNCHANGED <<SHORT_WINDOW, LONG_WINDOW, fetched, stdout, chart>>

\* print_signals(data)
PrintSignals ==
    /\ pc = "signalled"
    /\ stdout' = stdout \o print_signals(heap[data])
    /\ calls' = Append(calls, "print_signals")
    /\ pc' = "printed"
    /\ UNCHANGED <<SHORT_WINDOW, LONG_WINDOW, heap, data, fetched, chart>>

\* plot_strategy(data, TICKER), then the closing message
PlotStrategy ==
    /\ pc = "printed"
    /\ chart' = plot_strategy(heap[data])
    /\ stdout' = Append(stdout, Text("ANALYSIS_COMPLETE"))
    /\ calls' = Append(calls, "plot_strategy")
    /\ pc' = "done"
    /\ UNCHANGED <<SHORT_WINDOW, LONG_WINDOW, heap, data, fetched>>

Next ==
    \/ FetchStockData
    \/ EmptyReturn
    \/ CalculateMovingAverages
    \/ GenerateSignals
    \/ PrintSignals
    \/ PlotStrategy

Spec == Init /\ [][Next]_vars

\* ---- vocabulary of the properties ----
\* the frame main holds, once fetched
F == heap[data]

N == Len(fetched.index)

HasAverages == pc \in {"averaged", "signalled", "printed", "done"}

HasSignals == pc \in {"signalled", "printed", "done"}

\* both averages are defined at position i
Defined(i) == (~F.Short_MA[i].nan) /\ (~F.Long_MA[i].nan)

\* the short average is strictly above the long one at position i
Above(i) == Gt(F.Short_MA[i], F.Long_MA[i])

Buy(i) == EqInt(F.Position[i], 1)

Sell(i) == EqInt(F.Position[i], -1)

Event(i) == Buy(i) \/ Sell(i)

Events == {i \in 1..N : Event(i)}

Max(a, b) == IF a > b THEN a ELSE b

\* the sum of close[lo..hi], added up term by term
RECURSIVE DirectSum(_, _, _)
DirectSum(close, lo, hi) ==
    IF lo > hi THEN 0 ELSE close[hi].num + DirectSum(close, lo, hi - 1)

\* the lines of one section of the report: those strictly between two headers
LinesBetween(from, to) ==
    LET a == CHOOSE j \in 1..Len(stdout) : stdout[j].tag = from
        b == IF to = "END" THEN Len(stdout) + 1
             ELSE CHOOSE j \in 1..Len(stdout) : stdout[j].tag = to
    IN  [j \in 1..(b - a - 1) |-> stdout[a + j]]

BuyLines == LinesBetween("BUY_HEADER", "SELL_HEADER")

SellLines ==
    IF pc = "done" THEN LinesBetween("SELL_HEADER", "ANALYSIS_COMPLETE")
    ELSE LinesBetween("SELL_HEADER", "END")

\* the lines report exactly the rows in rows, each with its own date and price
Reports(lines, rows) ==
    /\ \A j \in 1..Len(lines) : lines[j].tag = "SIGNAL" \/ rows = {}
    /\ rows # {} => Len(lines) = Cardinality(rows)
    /\ rows # {} => {<<lines[j].date, lines[j].cents>> : j \in 1..Len(lines)}
                    = {<<F.index[i], Fmt2f(F.Close[i])>> : i \in rows}
    /\ rows = {} => Len(lines) = 1 /\ lines[1].tag \in {"NO_BUY", "NO_SELL"}

\* ---- C1 ----
\* C1: no event (Position = 1 or -1) is emitted at a position whose
\* predecessor or which itself has an undefined short or long average; the
\* first position with both averages defined never carries a Buy.
C1_NoEventInsideWarmUp ==
    HasSignals =>
        \A i \in 1..N : Event(i) => (i > 1 /\ Defined(i - 1) /\ Defined(i))

\* ---- C2 ----
\* C2: where both averages are defined at i-1 and at i, Position[i] is 1
\* exactly on NotAbove -> Above, -1 exactly on Above -> NotAbove, else 0; and
\* every reported line carries the date and the Close of the event's own row.
C2_CrossoverAtDefinedPairs ==
    /\ HasSignals =>
         \A i \in 2..N : (Defined(i - 1) /\ Defined(i)) =>
            /\ Buy(i) <=> (~Above(i - 1) /\ Above(i))
            /\ Sell(i) <=> (Above(i - 1) /\ ~Above(i))
            /\ (~Buy(i) /\ ~Sell(i)) => EqInt(F.Position[i], 0)
    /\ pc \in {"printed", "done"} =>
         /\ Reports(BuyLines, {i \in 1..N : Buy(i)})
         /\ Reports(SellLines, {i \in 1..N : Sell(i)})

\* a Buy and a later Sell, both at pairs with all four averages defined, whose
\* rows differ in price from their predecessors, have been printed
C2_Witness ==
    /\ pc = "printed"
    /\ \E i, j \in 2..N :
         /\ i < j
         /\ Defined(i - 1) /\ Defined(i) /\ Buy(i)
         /\ Defined(j - 1) /\ Defined(j) /\ Sell(j)
         /\ F.Close[i] # F.Close[i - 1]
         /\ F.Close[j] # F.Close[j - 1]

\* ---- C3 ----
\* the column col is the rolling mean of Close over window w
IsRollingMean(col, w) ==
    /\ Len(col) = N
    /\ \A i \in 1..N :
         /\ i < w => col[i].nan
         /\ i >= w => /\ ~col[i].nan
                      /\ col[i].num * w = DirectSum(F.Close, i - w + 1, i) * col[i].den
    /\ Cardinality({i \in 1..N : ~col[i].nan}) = Max(N - w + 1, 0)

\* C3: for a window W >= 1 each of Short_MA and Long_MA has length N, is
\* undefined before position W-1 and from there on is the arithmetic mean of
\* the last W Close values, so exactly max(N - W + 1, 0) trailing entries are
\* defined.
C3_RollingMeanColumns ==
    HasAverages =>
        /\ SHORT_WINDOW >= 1 => IsRollingMean(F.Short_MA, SHORT_WINDOW)
        /\ LONG_WINDOW >= 1 => IsRollingMean(F.Long_MA, LONG_WINDOW)

\* averages with a warm-up and a defined tail over prices that differ, and a
\* long window that never fills
C3_Witness ==
    /\ pc = "averaged"
    /\ SHORT_WINDOW = 2 /\ LONG_WINDOW > N /\ N >= 2
    /\ F.Short_MA[1].nan /\ ~F.Short_MA[N].nan
    /\ F.Close[N] # F.Close[N - 1]
    /\ \A i \in 1..N : F.Long_MA[i].nan

C5_InvalidConfigRejected ==
    (SHORT_WINDOW < 1 \/ LONG_WINDOW < 1) => ~HasAverages

\* ---- C6 ----
\* C6: on an empty fetched series main prints the error and returns; none of
\* calculate_moving_averages, generate_signals, print_signals, plot_strategy
\* is invoked, and the frame, the report and the chart stay untouched.
C6_EmptyInputReturnsEarly ==
    (pc # "main" /\ N = 0) =>
        /\ pc \in {"fetched", "returned_empty"}
        /\ calls = <<"fetch_stock_data">>
        /\ heap[data] = fetched
        /\ chart = [buy |-> <<>>, sell |-> <<>>]
        /\ pc = "fetched" => stdout = <<>>
        /\ pc = "returned_empty" => stdout = <<Text("ERROR_NO_DATA")>>

\* main has returned on an empty series
C6_Witness ==
    /\ pc = "returned_empty"
    /\ N = 0
    /\ stdout = <<Text("ERROR_NO_DATA")>>

\* the dates of the lines are strictly increasing dates of the index
IncreasingDates(lines) ==
    /\ \A j \in 1..Len(lines) : lines[j].tag = "SIGNAL" =>
          \E i \in 1..N : F.index[i] = lines[j].date
    /\ \A j, k \in 1..Len(lines) :
          (j < k /\ lines[j].tag = "SIGNAL") => lines[j].date < lines[k].date

\* ---- C7 ----
\* C7: the events in timestamp order alternate in kind, and their timestamps
\* are a strictly increasing subsequence of the input's.
C7_EventsAlternate ==
    /\ HasSignals =>
         /\ \A i, j \in Events :
              (i < j /\ (\A m \in Events : ~(i < m /\ m < j))) => (Buy(i) <=> Sell(j))
         /\ \A i, j \in Events : i < j => F.index[i] < F.index[j]
    /\ pc \in {"printed", "done"} =>
         /\ IncreasingDates(BuyLines)
         /\ IncreasingDates(SellLines)

\* three events in a row have been emitted and printed
C7_Witness ==
    /\ pc = "done"
    /\ Cardinality(Events) >= 3
    /\ Len(BuyLines) = 2

\* the Close column holds one value throughout
ConstantSeries == \A i, j \in 1..N : F.Close[i] = F.Close[j]

\* the two averages are defined and equal at position i
Tie(i) ==
    Defined(i) /\ F.Short_MA[i].num * F.Long_MA[i].den
                  = F.Long_MA[i].num * F.Short_MA[i].den

\* ---- C8 ----
\* C8: equal averages give Signal = 0, and a constant series at least
\* longWindow long yields no event, whatever the windows.
C8_TieIsNotAbove ==
    HasSignals =>
        /\ \A i \in 1..N : Tie(i) => F.Signal[i] = 0
        /\ (ConstantSeries /\ N >= LONG_WINDOW) => Events = {}

\* a constant series with distinct windows, tied right after the warm-up
C8_Witness ==
    /\ pc = "signalled"
    /\ ConstantSeries
    /\ SHORT_WINDOW >= 1 /\ LONG_WINDOW > SHORT_WINDOW /\ N > LONG_WINDOW
    /\ ~Defined(LONG_WINDOW - 1) /\ Tie(LONG_WINDOW)

\* ---- C9 ----
\* C9: with N >= 1 and windows >= 1, a series of one point or shorter than a
\* window yields no event; position 0 never carries one, so there are at most
\* N - 1 events.
C9_ShortSeriesNoEvents ==
    (HasSignals /\ N >= 1 /\ SHORT_WINDOW >= 1 /\ LONG_WINDOW >= 1) =>
        /\ (N = 1 \/ SHORT_WINDOW > N \/ LONG_WINDOW > N) => Events = {}
        /\ ~Event(1)
        /\ Cardinality(Events) <= N - 1

\* a rising series shorter than the long window only
C9_Witness ==
    /\ pc = "signalled"
    /\ N >= 2 /\ SHORT_WINDOW = 1 /\ LONG_WINDOW > N
    /\ F.Close[N].num > F.Close[N - 1].num
    /\ Events = {}

\* Buy events minus Sell events among the first k positions
NetBuys(k) ==
    Cardinality({i \in 1..k : Buy(i)}) - Cardinality({i \in 1..k : Sell(i)})

\* ---- C10 ----
\* C10: Signal at position 0 is 0, so the first event is a Buy, and at every
\* prefix the Buys minus the Sells are 0 or 1 and equal the current Signal.
C10_NetBuysEqualSignal ==
    HasSignals =>
        /\ N >= 1 => F.Signal[1] = 0
        /\ \A i \in 1..N : Sell(i) => \E j \in 1..(i - 1) : Buy(j)
        /\ \A k \in 1..N : NetBuys(k) \in {0, 1} /\ NetBuys(k) = F.Signal[k]

\* a Buy right at the fill of the long window, a Sell on the next row, and a
\* series that ends with the signal up again
C10_Witness ==
    /\ pc = "signalled"
    /\ LONG_WINDOW >= 2 /\ N >= LONG_WINDOW + 2
    /\ Buy(LONG_WINDOW) /\ Sell(LONG_WINDOW + 1)
    /\ F.Signal[N] = 1
====
